---- MODULE Spec2Model ----
(***************************************************************************)
(* Model of src/src/data/ember_api_client.py: the EmberAPI client, its     *)
(* retried HTTP session, its request helper and its file cache.            *)
(*                                                                         *)
(* Text is a sequence of one-character strings, so that re.sub, rstrip,    *)
(* slicing and substring tests are computed character by character.        *)
(***************************************************************************)
EXTENDS Integers, Sequences, FiniteSets, TLC

VARIABLES client, cache, log, last

vars == <<client, cache, log, last>>

----------------------------------------------------------------------------
(* Bounds of the model *)

\* data versions the server may hold: a response document carries 0..MaxVer
MaxVer == 1
\* the cache directory holds at most MaxFiles files
MaxFiles == 2
\* a server script repeats its first outcome at most MaxRepeat times
MaxRepeat == 4
\* longest response body of an error response
MaxBodyLen == 301

----------------------------------------------------------------------------
(* Program constants *)

\* Retry(total=3, ...)
RetryTotal == 3
\* urllib3's HTTPAdapter default, max_retries=0, on the "http://" mount the
\* code leaves alone
DefaultRetryTotal == 0
\* response.text[:300]
TruncLen == 300
\* response.status_code != 200
StatusOK == 200

API_KEY_PARAM == <<"a","p","i","_","k","e","y">>
HTTPS_PREFIX == <<"h","t","t","p","s",":","/","/">>
YEARLY_PATH == <<"/","v","1","/","e","l","e","c","t","r","i","c","i","t","y","-","g","e","n","e","r","a","t","i","o","n","/","y","e","a","r","l","y">>
MONTHLY_PATH == <<"/","v","1","/","e","l","e","c","t","r","i","c","i","t","y","-","g","e","n","e","r","a","t","i","o","n","/","m","o","n","t","h","l","y">>
CAPACITY_PATH == <<"/","v","1","/","i","n","s","t","a","l","l","e","d","-","c","a","p","a","c","i","t","y","/","m","o","n","t","h","l","y">>
OPTIONS_PREFIX == <<"/","v","1","/","o","p","t","i","o","n","s","/">>
CACHE_DIR == <<"d","a","t","a","/","r","a","w","/">>
JSON_SUFFIX == <<".","j","s","o","n">>

\* urllib3.util.retry.Retry.RETRY_AFTER_STATUS_CODES, used by the Retry
\* object the constructor builds (respect_retry_after_header defaults to True)
RETRY_AFTER_STATUS_CODES == {413, 429, 503}

----------------------------------------------------------------------------
(* Text helpers *)

Upper == {"A","B","C","D","E","F","G","H","I","J","K","L","M",
          "N","O","P","Q","R","S","T","U","V","W","X","Y","Z"}
Lower == {"a","b","c","d","e","f","g","h","i","j","k","l","m",
          "n","o","p","q","r","s","t","u","v","w","x","y","z"}
Digit == {"0","1","2","3","4","5","6","7","8","9"}

\* the character class [A-Za-z0-9_-] of _sanitize
SafeChars == Upper \cup Lower \cup Digit \cup {"_", "-"}

DigitChar(d) == CASE d = 0 -> "0" [] d = 1 -> "1" [] d = 2 -> "2" [] d = 3 -> "3"
                  [] d = 4 -> "4" [] d = 5 -> "5" [] d = 6 -> "6" [] d = 7 -> "7"
                  [] d = 8 -> "8" [] d = 9 -> "9"

RECURSIVE NatStr(_)
NatStr(n) == IF n < 10 THEN <<DigitChar(n)>>
             ELSE NatStr(n \div 10) \o <<DigitChar(n % 10)>>

\* A parameter value is a Python str or a Python int:
\* [t |-> "str", s |-> text] or [t |-> "int", n |-> number].
StrV(s) == [t |-> "str", s |-> s, n |-> 0]
IntV(n) == [t |-> "int", s |-> <<>>, n |-> n]

\* str(value)
PyStr(v) == IF v.t = "int" THEN NatStr(v.n) ELSE v.s

\* repr(value), as "%s" prints a dict's values
PyRepr(v) == IF v.t = "int" THEN NatStr(v.n) ELSE <<"'">> \o v.s \o <<"'">>

RECURSIVE Join(_, _)
\* sep.join(parts)
Join(parts, sep) ==
    IF parts = <<>> THEN <<>>
    ELSE IF Len(parts) = 1 THEN parts[1]
    ELSE parts[1] \o sep \o Join(Tail(parts), sep)

\* needle occurs in text as a substring (needle not empty)
Contains(text, needle) ==
    /\ Len(needle) > 0
    /\ \E i \in 1..(Len(text) - Len(needle) + 1) :
          SubSeq(text, i, i + Len(needle) - 1) = needle

StartsWith(text, prefix) ==
    /\ Len(text) >= Len(prefix)
    /\ SubSeq(text, 1, Len(prefix)) = prefix

RECURSIVE RStripSlash(_)
\* base_url.rstrip("/")
RStripSlash(s) ==
    IF s # <<>> /\ s[Len(s)] = "/" THEN RStripSlash(SubSeq(s, 1, Len(s) - 1))
    ELSE s

\* str(value) with no character replaced
SanitizeNothing(v) == PyStr(v)

\* re.sub(r"[^A-Za-z0-9_-]", "_", str(value))
Sanitize(v) ==
    LET s == PyStr(v)
    IN  [i \in 1..Len(s) |-> IF s[i] \in SafeChars THEN s[i] ELSE "_"]

----------------------------------------------------------------------------
(* Parameter mappings: a Python dict is a sequence of <<key, value>> items  *)
(* in insertion order, with distinct keys (keys are text).                  *)

Keys(params) == {params[i][1] : i \in 1..Len(params)}

\* the mapping a dict denotes, whatever its insertion order
AsMapping(params) == {params[i] : i \in 1..Len(params)}

\* params[key] = value: replaces in place, or appends
SetItem(params, key, value) ==
    IF key \in Keys(params)
    THEN [i \in 1..Len(params) |->
            IF params[i][1] = key THEN <<key, value>> ELSE params[i]]
    ELSE Append(params, <<key, value>>)

IsNotApiKey(item) == item[1] # API_KEY_PARAM

\* {k: v for k, v in params.items() if k != "api_key"}
SafeParams(params) == SelectSeq(params, IsNotApiKey)

\* the text "%s" prints for a dict
DictRepr(params) ==
    <<"{">> \o
    Join([i \in 1..Len(params) |->
            <<"'">> \o params[i][1] \o <<"'", ":", " ">> \o PyRepr(params[i][2])],
         <<",", " ">>) \o
    <<"}">>

\* "_" + "_".join(f"{sanitize(k)}-{sanitize(v)}" for k, v in params.items())
ParamStr(params) ==
    <<"_">> \o
    Join([i \in 1..Len(params) |->
            Sanitize(StrV(params[i][1])) \o <<"-">> \o Sanitize(params[i][2])],
         <<"_">>)

\* f"{endpoint_name}{param_str}.json", the file's name under CACHE_DIR
CacheFileName(endpoint_name, params) ==
    endpoint_name \o ParamStr(params) \o JSON_SUFFIX

\* str(cache_file)
CachePath(endpoint_name, params) == CACHE_DIR \o CacheFileName(endpoint_name, params)

----------------------------------------------------------------------------
(* The remote service and the HTTP session                                  *)

Min(a, b) == IF a < b THEN a ELSE b

\* One outcome of one HTTP attempt: the connection fails (or times out), or
\* the server answers with a status, with or without a Retry-After header.
ConnFail == [t |-> "conn", status |-> 0, retry_after |-> FALSE]
Resp(status, retry_after) == [t |-> "resp", status |-> status, retry_after |-> retry_after]

Outcomes == {ConnFail, Resp(StatusOK, FALSE), Resp(404, FALSE), Resp(500, FALSE),
             Resp(503, FALSE), Resp(503, TRUE)}

\* a script has an outcome for every attempt a session can make, and one more
ScriptLen == IF MaxRepeat + 1 > RetryTotal + 2 THEN MaxRepeat + 1 ELSE RetryTotal + 2

\* the server's behaviour during one call: `first` for the first k attempts,
\* `then` for every later one
Script(first, k, then) == [i \in 1..ScriptLen |-> IF i <= k THEN first ELSE then]

\* response.text of an error response of n characters
BodyText(n) == [i \in 1..n |-> "x"]

\* text[:n]
Slice(text, n) == SubSeq(text, 1, Min(n, Len(text)))

NoDoc == [endpoint |-> <<>>, query |-> {}, ver |-> 0 - 1]

\* the filters of a request as the session sends them: every value as
\* str(value), the api_key left out
WireQuery(params) ==
    {<<item[1], PyStr(item[2])>> : item \in AsMapping(SafeParams(params))}

\* response.json(): the document the service holds, at data version ver, for
\* the request (its path and its filters as sent on the wire, str(value));
\* the api_key authenticates and selects nothing
Doc(endpoint, query, ver) ==
    [endpoint |-> endpoint,
     query |-> WireQuery(query),
     ver |-> ver]

\* is_retry of a Retry built with status_forcelist=[500, 502, 503, 504]
IsRetryForcelist(total, status, has_retry_after) ==
    /\ total # 0
    /\ \/ status \in {500, 502, 503, 504}
       \/ has_retry_after /\ status \in RETRY_AFTER_STATUS_CODES

\* Retry.is_retry("GET", status, has_retry_after) with status_forcelist unset:
\* only a Retry-After answer with one of RETRY_AFTER_STATUS_CODES is retried,
\* and only while total is not 0
IsRetry(total, status, has_retry_after) ==
    /\ total # 0
    /\ has_retry_after
    /\ status \in RETRY_AFTER_STATUS_CODES

\* session.get_adapter(url).max_retries.total: the Retry of the constructor
\* is mounted on "https://" only
MaxRetries(url) ==
    IF StartsWith(url, HTTPS_PREFIX) THEN RetryTotal ELSE DefaultRetryTotal

RECURSIVE UrlOpen(_, _, _)
\* session.get(url, ...): the attempts of one GET under Retry(total), attempt
\* i taking script[i]. Retry.increment lowers total by one and gives up once
\* it is below 0.
UrlOpen(total, script, i) ==
    LET o == script[i]
        retried == UrlOpen(total - 1, script, i + 1)
    IN  IF o.t = "conn"
        THEN IF total - 1 < 0
             THEN [served |-> <<o>>, end |-> "ConnectionError"]
             ELSE [served |-> <<o>> \o retried.served, end |-> retried.end]
        ELSE IF IsRetry(total, o.status, o.retry_after)
        THEN IF total - 1 < 0
             THEN [served |-> <<o>>, end |-> "RetryError"]
             ELSE [served |-> <<o>> \o retried.served, end |-> retried.end]
        ELSE [served |-> <<o>>, end |-> "response"]

----------------------------------------------------------------------------
(* Log lines and results                                                    *)

\* logger.<level>(fmt, *args): the arguments are text
Line(level, fmt, args) == [level |-> level, fmt |-> fmt, args |-> args]

\* what a call gives its caller: a value, or an exception
Out(kind, value, status, body, served) ==
    [kind |-> kind, value |-> value, status |-> status, body |-> body,
     served |-> served]

NoOut == Out("none", NoDoc, 0, <<>>, <<>>)

\* _request(endpoint, params) of client c, the server following srv:
\* [log |-> the lines logged, out |-> the result]
Request(c, endpoint, params, srv) ==
    LET url == c.base_url \o endpoint
        query == SetItem(params, API_KEY_PARAM, StrV(c.api_key))
        safe_params == SafeParams(query)
        before == << Line("info", "Requesting: %s", <<url>>),
                     IF safe_params # <<>>
                     THEN Line("info", "Parameters used: %s", <<DictRepr(safe_params)>>)
                     ELSE Line("info", "No filters applied - fetching full dataset", <<>>) >>
        sent == UrlOpen(MaxRetries(url), srv.script, 1)
        response == sent.served[Len(sent.served)]
        text == BodyText(srv.body)
    IN  IF sent.end # "response"
        THEN [log |-> before,
              out |-> Out(sent.end, NoDoc, 0, <<>>, sent.served)]
        ELSE IF response.status # StatusOK
        THEN [log |-> Append(before,
                        Line("error", "API request failed (%s): %s",
                             <<NatStr(response.status), Slice(text, TruncLen)>>)),
              out |-> Out("RuntimeError", NoDoc, response.status, text, sent.served)]
        ELSE [log |-> Append(before, Line("info", "Request successful: %s", <<url>>)),
              out |-> Out("ok", Doc(endpoint, query, srv.ver), StatusOK, <<>>,
                          sent.served)]

\* the dataset accessors: a log line, then _request on a fixed path
AccessorPath(func) ==
    CASE func = "electricity_generation_yearly" -> YEARLY_PATH
      [] func = "electricity_generation_monthly" -> MONTHLY_PATH
      [] func = "electricity_capacity_monthly" -> CAPACITY_PATH

AccessorLine(func) ==
    CASE func = "electricity_generation_yearly" ->
            Line("info", "Fetching yearly electricity generation dataset", <<>>)
      [] func = "electricity_generation_monthly" ->
            Line("info", "Fetching monthly electricity generation dataset", <<>>)
      [] func = "electricity_capacity_monthly" ->
            Line("info", "Fetching monthly electricity capacity dataset", <<>>)

Accessor(c, func, params, srv) ==
    LET r == Request(c, AccessorPath(func), params, srv)
    IN  [log |-> <<AccessorLine(func)>> \o r.log, out |-> r.out]

----------------------------------------------------------------------------
(* The file cache                                                           *)

\* json.dump(data, f) run to its end: the file holds the document's JSON
\* text. The documents are those response.json() parsed, which JSON text
\* holds exactly.
JsonDump(data) == [complete |-> TRUE, doc |-> data]

\* the file after open(cache_file, "w") and a json.dump that did not finish
PartialFile == [complete |-> FALSE, doc |-> NoDoc]

\* json.load(f): the document, or JSONDecodeError on text that is cut short
JsonLoad(file) ==
    IF file.complete THEN Out("ok", file.doc, 0, <<>>, <<>>)
    ELSE Out("JSONDecodeError", NoDoc, 0, <<>>, <<>>)

\* a check that never finds the file
ExistsNever(files, name) == FALSE

\* cache_file.exists()
Exists(files, name) == name \in DOMAIN files

\* the directory after a write of `file` under `name`
WriteFile(files, name, file) ==
    [f \in DOMAIN files \cup {name} |-> IF f = name THEN file ELSE files[f]]

\* fetch_and_cache(endpoint_name, fetch_func, params) of client c on the
\* directory `files`, the server following srv and the disk following io:
\* [log, out, name |-> the cache file's name, files |-> the directory
\*  afterwards, fetches |-> the number of calls of fetch_func]
FetchAndCacheCall(c, files, endpoint_name, fetch_func, params, srv, io) ==
    LET name == CacheFileName(endpoint_name, params)
        path == CachePath(endpoint_name, params)
        fetched == Accessor(c, fetch_func, params, srv)
        missed == <<Line("info", "Cache not found. Fetching from API...", <<>>)>>
                     \o fetched.log
    IN  IF Exists(files, name)
        THEN [log |-> <<Line("info", "Loading cached data from %s", <<path>>)>>,
              out |-> JsonLoad(files[name]),
              name |-> name, files |-> files, fetches |-> 0]
        ELSE IF fetched.out.kind # "ok"
        THEN [log |-> missed, out |-> fetched.out,
              name |-> name, files |-> files, fetches |-> 1]
        ELSE IF io = "open_fails"
        THEN [log |-> missed,
              out |-> Out("OSError", NoDoc, 0, <<>>, fetched.out.served),
              name |-> name, files |-> files, fetches |-> 1]
        ELSE IF io = "dump_fails"
        THEN [log |-> missed,
              out |-> Out("OSError", NoDoc, 0, <<>>, fetched.out.served),
              name |-> name, files |-> WriteFile(files, name, PartialFile), fetches |-> 1]
        ELSE [log |-> Append(missed, Line("info", "Saved API response to %s", <<path>>)),
              out |-> fetched.out,
              name |-> name, files |-> WriteFile(files, name, JsonDump(fetched.out.value)),
              fetches |-> 1]

----------------------------------------------------------------------------
(* State                                                                    *)

\* an api_key argument: None, or text
KeyNone == [none |-> TRUE, s |-> <<>>]
KeyText(s) == [none |-> FALSE, s |-> s]

NoClient == [exists |-> FALSE, api_key |-> <<>>, base_url |-> <<>>]

NoArgs == [key |-> KeyNone, url |-> <<>>, name |-> <<>>, func |-> "", params |-> <<>>]

\* what the previous operation was, when it was a fetch_and_cache with the
\* same arguments on an empty cache directory
NoPrev == [same |-> FALSE, out |-> NoOut, fetches |-> 0]

\* the last operation: its name, its arguments, its result, the cache file
\* it looked for, the number of calls of fetch_func it made, whether the
\* cache directory was empty when it began, and the operation before it (prev)
Last(op, args, out, file, fetches, empty, prev) ==
    [op |-> op, args |-> args, out |-> out, file |-> file, fetches |-> fetches,
     empty |-> empty, prev |-> prev]

Init ==
    /\ client = NoClient
    /\ cache = <<>>
    /\ log = <<>>
    /\ last = Last("none", NoArgs, NoOut, <<>>, 0, TRUE, NoPrev)

----------------------------------------------------------------------------
(* Operations. U names the bounded sets the inputs are drawn from.          *)

\* EmberAPI(api_key, base_url)
Construct(U) ==
    /\ ~client.exists
    /\ \E api_key \in U.keys, base_url \in U.urls :
          LET args == [NoArgs EXCEPT !.key = api_key, !.url = base_url]
          IN  IF api_key.none
              THEN /\ last' = Last("Construct", args,
                                   Out("ValueError", NoDoc, 0, <<>>, <<>>), <<>>, 0,
                                   DOMAIN cache = {}, NoPrev)
                   /\ log' = <<>>
                   /\ UNCHANGED <<client, cache>>
              ELSE /\ client' = [exists |-> TRUE, api_key |-> api_key.s,
                                 base_url |-> RStripSlash(base_url)]
                   /\ log' = <<Line("info", "Initialized EmberAPI client with base URL: %s",
                                    <<RStripSlash(base_url)>>)>>
                   /\ last' = Last("Construct", args, Out("ok", NoDoc, 0, <<>>, <<>>),
                                   <<>>, 0, DOMAIN cache = {}, NoPrev)
                   /\ UNCHANGED cache

\* the server's behaviour during one call
Servers(U) ==
    {[script |-> script, body |-> body, ver |-> ver] :
        script \in U.scripts, body \in U.bodies, ver \in U.vers}

\* _request(endpoint, params)
Get(U) ==
    /\ client.exists
    /\ \E endpoint \in U.endpoints, params \in U.params, srv \in Servers(U) :
          LET r == Request(client, endpoint, params, srv)
          IN  /\ log' = r.log
              /\ last' = Last("Get", [NoArgs EXCEPT !.name = endpoint, !.params = params],
                              r.out, <<>>, 0, DOMAIN cache = {}, NoPrev)
              /\ UNCHANGED <<client, cache>>

\* electricity_generation_yearly(**params), electricity_generation_monthly(**params),
\* electricity_capacity_monthly(**params)
DatasetAccessor(U, func) ==
    /\ client.exists
    /\ \E params \in U.params, srv \in Servers(U) :
          LET r == Accessor(client, func, params, srv)
          IN  /\ log' = r.log
              /\ last' = Last(func, [NoArgs EXCEPT !.func = func, !.params = params],
                              r.out, <<>>, 0, DOMAIN cache = {}, NoPrev)
              /\ UNCHANGED <<client, cache>>

ElectricityGenerationYearly(U) == DatasetAccessor(U, "electricity_generation_yearly")
ElectricityGenerationMonthly(U) == DatasetAccessor(U, "electricity_generation_monthly")
ElectricityCapacityMonthly(U) == DatasetAccessor(U, "electricity_capacity_monthly")

\* options(dataset, temporal_resolution, filter_name)
Options(U) ==
    /\ client.exists
    /\ \E dataset \in U.words, temporal_resolution \in U.words, filter_name \in U.words,
          srv \in Servers(U) :
          LET endpoint == OPTIONS_PREFIX \o dataset \o <<"/">> \o temporal_resolution
                             \o <<"/">> \o filter_name
              r == Request(client, endpoint, <<>>, srv)
          IN  /\ log' = <<Line("info",
                               "Fetching options for dataset=%s, temporal_resolution=%s, filter_name=%s",
                               <<dataset, temporal_resolution, filter_name>>)>> \o r.log
              /\ last' = Last("options", [NoArgs EXCEPT !.name = endpoint], r.out, <<>>, 0,
                              DOMAIN cache = {}, NoPrev)
              /\ UNCHANGED <<client, cache>>

\* fetch_and_cache(endpoint_name, fetch_func, params)
FetchAndCache(U) ==
    /\ client.exists
    /\ \E endpoint_name \in U.names, fetch_func \in U.funcs, params \in U.params,
          srv \in Servers(U), io \in U.io :
          LET args == [NoArgs EXCEPT !.name = endpoint_name, !.func = fetch_func,
                                     !.params = params]
              r == FetchAndCacheCall(client, cache, endpoint_name, fetch_func, params,
                                     srv, io)
              prev == IF last.op = "fetch_and_cache" /\ last.args = args /\ last.empty
                      THEN [same |-> TRUE, out |-> last.out, fetches |-> last.fetches]
                      ELSE NoPrev
          IN  /\ Cardinality(DOMAIN r.files) <= MaxFiles
              /\ cache' = r.files
              /\ log' = r.log
              /\ last' = Last("fetch_and_cache", args, r.out, r.name, r.fetches,
                              DOMAIN cache = {}, prev)
              /\ UNCHANGED client

----------------------------------------------------------------------------
(* Inputs                                                                   *)

ENTITY_CODE == <<"e","n","t","i","t","y","_","c","o","d","e">>
START_DATE == <<"s","t","a","r","t","_","d","a","t","e">>
BRA == <<"B","R","A">>
BRA_SPACE == <<"B","R","A"," ">>
BRA_UNDER == <<"B","R","A","_">>
SECRET123 == <<"s","e","c","r","e","t","1","2","3">>
ENV_KEY == <<"k","3","y">>
URL_HTTPS == <<"h","t","t","p","s",":","/","/","h">>
URL_HTTPS_SLASH == <<"h","t","t","p","s",":","/","/","h","/">>
URL_HTTP == <<"h","t","t","p",":","/","/","h">>
GEN == <<"g","e","n">>
GEN_DOT == <<"g","e","n",".","y">>
MONTHLY == <<"m","o","n","t","h","l","y">>
ENTITY == <<"e","n","t","i","t","y">>

P_none == <<>>
P_space == << <<ENTITY_CODE, StrV(BRA_SPACE)>> >>
P_under == << <<ENTITY_CODE, StrV(BRA_UNDER)>> >>
P_bra_2000 == << <<ENTITY_CODE, StrV(BRA)>>, <<START_DATE, IntV(2000)>> >>
P_2000_bra == << <<START_DATE, IntV(2000)>>, <<ENTITY_CODE, StrV(BRA)>> >>
P_secret == << <<ENTITY_CODE, StrV(BRA)>>, <<API_KEY_PARAM, StrV(SECRET123)>> >>

DatasetAccessors == {"electricity_generation_yearly", "electricity_generation_monthly",
                     "electricity_capacity_monthly"}

\* the outcomes after which a session may try again
Transient == {ConnFail, Resp(503, TRUE)}

\* every script that repeats a transient outcome up to MaxRepeat times and
\* then settles on any outcome
AllScripts == {Script(first, k, then) :
                 first \in Transient, k \in 0..MaxRepeat, then \in Outcomes}

\* the inputs of the HTTP operations
UHttp ==
    [keys |-> {KeyNone, KeyText(<<>>), KeyText(ENV_KEY)},
     urls |-> {URL_HTTPS_SLASH, URL_HTTP},
     endpoints |-> {YEARLY_PATH},
     params |-> {P_none, P_secret},
     words |-> {MONTHLY},
     scripts |-> AllScripts,
     bodies |-> {TruncLen, MaxBodyLen},
     vers |-> {0},
     names |-> {GEN}, funcs |-> DatasetAccessors, io |-> {"ok"}]

\* the inputs of the cache's life cycle: one endpoint name, data that
\* changes between calls, a network and a disk that may fail
UCache ==
    [keys |-> {KeyNone, KeyText(ENV_KEY)},
     urls |-> {URL_HTTPS},
     endpoints |-> {YEARLY_PATH},
     params |-> {P_none, P_space, P_under},
     words |-> {MONTHLY},
     scripts |-> {Script(ConnFail, k, then) :
                    k \in {0, MaxRepeat}, then \in {Resp(StatusOK, FALSE), Resp(500, FALSE)}},
     bodies |-> {0},
     vers |-> 0..MaxVer,
     names |-> {GEN},
     funcs |-> {"electricity_generation_yearly"},
     io |-> {"ok", "open_fails", "dump_fails"}]

\* the inputs of the cache's file names: endpoint names and parameter
\* mappings with characters in and out of [A-Za-z0-9_-]
UNames ==
    [keys |-> {KeyNone, KeyText(ENV_KEY)},
     urls |-> {URL_HTTPS},
     endpoints |-> {YEARLY_PATH},
     params |-> {P_none, P_space, P_under, P_bra_2000, P_2000_bra, P_secret},
     words |-> {MONTHLY},
     scripts |-> {Script(ConnFail, 0, then) :
                    then \in {Resp(StatusOK, FALSE), Resp(500, FALSE)}},
     bodies |-> {0},
     vers |-> {0},
     names |-> {GEN, GEN_DOT},
     funcs |-> {"electricity_generation_yearly"},
     io |-> {"ok", "dump_fails"}]

----------------------------------------------------------------------------
(* Specifications                                                           *)

\* the client and its HTTP operations
NextHttp ==
    \/ Construct(UHttp)
    \/ Get(UHttp)
    \/ ElectricityGenerationYearly(UHttp)
    \/ ElectricityGenerationMonthly(UHttp)
    \/ ElectricityCapacityMonthly(UHttp)
    \/ Options(UHttp)

SpecHttp == Init /\ [][NextHttp]_vars

\* the client and the life cycle of its cache
Next ==
    \/ Construct(UCache)
    \/ FetchAndCache(UCache)

Spec == Init /\ [][Next]_vars

\* the client and the file names of its cache
NextNames ==
    \/ Construct(UNames)
    \/ FetchAndCache(UNames)

SpecNames == Init /\ [][NextNames]_vars

----------------------------------------------------------------------------
(* Properties                                                               *)

HttpOps == DatasetAccessors \cup {"Get", "options"}

\* the attempts of the last call: the outcomes the session met, in order
Served == last.out.served

IsErrorResponse(o) == o.t = "resp" /\ o.status >= 400

\* the client's session retries over this base URL
OverHttps == StartsWith(client.base_url, HTTPS_PREFIX)

\* C2: constructing the client with an api_key that is absent or empty fails,
\* leaves no client and makes no network call; construction succeeds only
\* for a key that is not empty.
C2_EmptyKeyRejected ==
    last.op = "Construct" =>
        IF last.args.key.none \/ last.args.key.s = <<>>
        THEN last.out.kind = "ValueError" /\ ~client.exists /\ Served = <<>>
        ELSE last.out.kind = "ok" /\ client.exists

\* C4: a Get whose response is not a 200 fails with an error that carries the
\* status code and at most TruncLen (300) characters of the response body,
\* and returns no JSON value.
C4_ErrorBodyTruncated ==
    (last.op \in HttpOps /\ Served # <<>> /\ Served[Len(Served)].t = "resp"
       /\ Served[Len(Served)].status # StatusOK) =>
        /\ last.out.kind = "RuntimeError"
        /\ last.out.status = Served[Len(Served)].status
        /\ last.out.value = NoDoc
        /\ Len(last.out.body) <= TruncLen

\* C5: a Get never issues more than 3 HTTP attempts, whatever the base URL,
\* and when the server answers 500 on every attempt it issues exactly 3 and
\* then surfaces one failure.
C5_ThreeAttemptsOn500 ==
    (last.op \in HttpOps) =>
        /\ Len(Served) <= 3
        /\ (\A i \in 1..Len(Served) : Served[i] = Resp(500, FALSE)) =>
              (Len(Served) = 3 /\ last.out.kind # "ok")

IsFetchAndCache == last.op = "fetch_and_cache"

\* C1 as stated: of two consecutive fetch_and_cache calls with the same
\* endpoint name, fetch function and params, the first on an empty cache,
\* exactly one calls the fetch function, and the second returns the value
\* the first returned.
C1_TwoCallsOneFetch ==
    (IsFetchAndCache /\ last.prev.same) =>
        /\ last.prev.fetches + last.fetches = 1
        /\ last.prev.out.kind = "ok"
        /\ last.out.kind = "ok"
        /\ last.out.value = last.prev.out.value

\* C1 amended: when the first of the two calls returns a value, it called
\* the fetch function once, and the second call does not call it: it reads
\* the cache and returns the value the first returned.
C1_SecondCallReadsCache ==
    (IsFetchAndCache /\ last.prev.same /\ last.prev.out.kind = "ok") =>
        /\ last.prev.fetches = 1
        /\ last.fetches = 0
        /\ last.out.kind = "ok"
        /\ last.out.value = last.prev.out.value
        /\ last.file \in DOMAIN cache
        /\ cache[last.file].doc = last.out.value

\* a second call with the arguments of a first call that fetched, stored and
\* returned its data on an empty cache
C1_Witness ==
    /\ IsFetchAndCache
    /\ last.prev.same
    /\ last.prev.out.kind = "ok"
    /\ last.prev.fetches = 1
    /\ last.fetches = 0

\* C8: a cache entry is created only by a fetch_and_cache call that fetched
\* and returned its data, with that data as its content; an entry that exists
\* is never changed or removed; and a call that finds its entry returns the
\* entry's content and does not call the fetch function.
C8_EntriesReadOnly ==
    [][ /\ \A n \in DOMAIN cache : n \in DOMAIN cache' /\ cache'[n] = cache[n]
        /\ \A n \in (DOMAIN cache') \ (DOMAIN cache) :
              /\ last'.out.kind = "ok"
              /\ cache'[n] = JsonDump(last'.out.value)
        /\ (last'.op = "fetch_and_cache" /\ last'.file \in DOMAIN cache) =>
              /\ last'.fetches = 0
              /\ last'.out.kind = "ok"
              /\ last'.out.value = cache[last'.file].doc ]_vars

\* C9: a fetch_and_cache call that fails after it looked for its entry and
\* found none leaves no entry, complete or partial, for its key.
C9_FailureLeavesNoEntry ==
    (IsFetchAndCache /\ last.fetches = 1 /\ last.out.kind # "ok") =>
        last.file \notin DOMAIN cache

\* C10: fetch_and_cache(endpoint_name, f, params) returns only data that f
\* fetched for exactly those params.
C10_ReturnsOwnData ==
    (IsFetchAndCache /\ last.out.kind = "ok") =>
        /\ last.out.value.endpoint = AccessorPath(last.args.func)
        /\ last.out.value.query = WireQuery(last.args.params)

\* the api_key values that must stay out of the log: the client's own, and
\* one the caller put into params
KeyValues ==
    {client.api_key} \cup
    {PyStr(item[2]) : item \in {i \in AsMapping(last.args.params) : i[1] = API_KEY_PARAM}}

\* C3: no line logged by an operation contains an api_key value, neither the
\* client's own nor one the caller supplied in params.
C3_NoKeyInLog ==
    \A i \in 1..Len(log) : \A j \in 1..Len(log[i].args) : \A key \in KeyValues :
        ~Contains(log[i].args[j], key)

\* the characters s holds, each one outside [A-Za-z0-9_-] as an underscore
Whitelisted(s) == [i \in 1..Len(s) |-> IF s[i] \in SafeChars THEN s[i] ELSE "_"]

\* the part of the cache file's name between the endpoint name and ".json"
ParamPart(file, endpoint_name) ==
    SubSeq(file, Len(endpoint_name) + 1, Len(file) - Len(JSON_SUFFIX))

EndsWith(text, suffix) ==
    /\ Len(text) >= Len(suffix)
    /\ SubSeq(text, Len(text) - Len(suffix) + 1, Len(text)) = suffix

\* C7 as stated: apart from its .json suffix, the name of the cache file holds
\* only characters of [A-Za-z0-9_-].
C7_OnlySafeChars ==
    IsFetchAndCache =>
        /\ EndsWith(last.file, JSON_SUFFIX)
        /\ \A i \in 1..(Len(last.file) - Len(JSON_SUFFIX)) : last.file[i] \in SafeChars

\* C7 amended: the name of the cache file is the endpoint name as given, then
\* "_", then the "{key}-{value}" pairs of params in their order joined by
\* "_", then ".json"; in the pairs every character of a key or of str(value)
\* outside [A-Za-z0-9_-] is one underscore and every other character is kept,
\* so that between the endpoint name and the suffix only [A-Za-z0-9_-] occur.
C7_ParamsSanitized ==
    IsFetchAndCache =>
        LET params == last.args.params
            part == ParamPart(last.file, last.args.name)
        IN  /\ StartsWith(last.file, last.args.name)
            /\ EndsWith(last.file, JSON_SUFFIX)
            /\ \A i \in 1..Len(part) : part[i] \in SafeChars
            /\ part = <<"_">> \o
                      Join([i \in 1..Len(params) |->
                              Whitelisted(params[i][1]) \o <<"-">>
                                 \o Whitelisted(PyStr(params[i][2]))],
                           <<"_">>)

\* a call with entity_code="BRA " under an endpoint name that holds a ".":
\* the file is gen.y_entity_code-BRA_.json
C7_Witness ==
    /\ IsFetchAndCache
    /\ last.args.name = GEN_DOT
    /\ last.args.params = P_space
    /\ last.file = GEN_DOT \o <<"_">> \o ENTITY_CODE \o <<"-">> \o BRA_UNDER \o JSON_SUFFIX

====
